---- MODULE Spec2Model ----
(***************************************************************************)
(* Model of the log analyzer in src/main.rs: the level classifier          *)
(* parse_log_level and the single-pass analysis loop of main.              *)
(*                                                                         *)
(* A line of text is a sequence of characters, each a string.  None of an  *)
(* Option<LogLevelFilter> is the string "None"; an Option<String> is the   *)
(* empty sequence (None) or a one-element sequence holding the text.       *)
(***************************************************************************)
EXTENDS Integers, Sequences, FiniteSets, TLC

\* ------------------------------------------------------------------ bounds
MaxLines == 3
MaxFrags == 3

\* ------------------------------------------------------------- characters
Lowers == <<"a","b","c","d","e","f","g","h","i","j","k","l","m",
            "n","o","p","q","r","s","t","u","v","w","x","y","z">>
Uppers == <<"A","B","C","D","E","F","G","H","I","J","K","L","M",
            "N","O","P","Q","R","S","T","U","V","W","X","Y","Z">>

LowerSet == { Lowers[i] : i \in 1..Len(Lowers) }
UpperSet == { Uppers[i] : i \in 1..Len(Uppers) }

\* char::to_uppercase / char::to_lowercase on the Latin letters
UpperOf == [c \in LowerSet |-> Uppers[CHOOSE i \in 1..Len(Lowers) : Lowers[i] = c]]
LowerOf == [c \in UpperSet |-> Lowers[CHOOSE i \in 1..Len(Uppers) : Uppers[i] = c]]

\* Greek sigma, written by name: capital (U+03A3), small (U+03C3) and small
\* final (U+03C2)
Sigmas == {"Sigma", "sigma", "final_sigma"}

IsLower(c) == c \in LowerSet
IsUpper(c) == c \in UpperSet

\* the Unicode property Cased, on the modelled alphabet
Cased(c) == IsLower(c) \/ IsUpper(c) \/ c \in Sigmas

to_uppercase_char(c) ==
    IF IsLower(c) THEN UpperOf[c]
    ELSE IF c \in Sigmas THEN "Sigma"
    ELSE c
to_lowercase_char(c) ==
    IF IsUpper(c) THEN LowerOf[c]
    ELSE IF c = "Sigma" THEN "sigma"
    ELSE c

\* the lower case of a capital sigma at position i of s: final sigma when a
\* cased letter precedes it and none follows it (the alphabet has no
\* case-ignorable characters to skip)
map_uppercase_sigma(s, i) ==
    IF /\ i > 1 /\ Cased(s[i - 1])
       /\ ~ (i < Len(s) /\ Cased(s[i + 1]))
    THEN "final_sigma" ELSE "sigma"

\* str::to_uppercase maps character by character
to_uppercase(s) == [i \in 1..Len(s) |-> to_uppercase_char(s[i])]

\* str::to_lowercase maps character by character, except for capital sigma
to_lowercase(s) ==
    [i \in 1..Len(s) |->
        IF s[i] = "Sigma" THEN map_uppercase_sigma(s, i) ELSE to_lowercase_char(s[i])]

\* str::contains: needle occurs as a contiguous substring of hay
contains(hay, needle) ==
    \E i \in 0..(Len(hay) - Len(needle)) :
        SubSeq(hay, i + 1, i + Len(needle)) = needle

\* ----------------------------------------------------------------- levels
Levels  == {"Error", "Warn", "Info", "Debug", "Trace"}
NoLevel == "None"

TokERROR == <<"E","R","R","O","R">>
TokWARN  == <<"W","A","R","N">>
TokINFO  == <<"I","N","F","O">>
TokDEBUG == <<"D","E","B","U","G">>
TokTRACE == <<"T","R","A","C","E">>

\* mutant: the WARN test placed ahead of the ERROR test
parse_log_level_WarnFirst(line) ==
    LET upper == to_uppercase(line) IN
    IF contains(upper, TokWARN) THEN "Warn"
    ELSE IF contains(upper, TokERROR) THEN "Error"
    ELSE IF contains(upper, TokINFO) THEN "Info"
    ELSE IF contains(upper, TokDEBUG) THEN "Debug"
    ELSE IF contains(upper, TokTRACE) THEN "Trace"
    ELSE NoLevel

parse_log_level(line) ==
    LET upper == to_uppercase(line) IN
    IF contains(upper, TokERROR) THEN "Error"
    ELSE IF contains(upper, TokWARN) THEN "Warn"
    ELSE IF contains(upper, TokINFO) THEN "Info"
    ELSE IF contains(upper, TokDEBUG) THEN "Debug"
    ELSE IF contains(upper, TokTRACE) THEN "Trace"
    ELSE NoLevel

\* ----------------------------------------------------------------- inputs
\* lines a log file may hold
Corpus ==
    { <<"I","n","f","o"," ","o","k">>,                      \* "Info ok"
      <<"e","r","r","o","r"," ","R","e","t","r","y">>,      \* "error Retry"
      <<"h","i","Sigma">>,                                      \* "hi" + capital sigma
      <<"W","A","R","N"," ","r","e","t","r","y">>,          \* "WARN retry"
      <<"t","r","a","c","e"," ","d","e","b","u","g">> }     \* "trace debug"

\* values of --search
SearchTerms ==
    { <<"R","e","t","r","y">>, <<"Sigma">>, <<>> }

\* values of --file
Paths == {"app.log", "missing.log"}

\* every sequence over S of length at most n
SeqsUpTo(S, n) == UNION { [1..k -> S] : k \in 0..n }

\* pieces that single lines are assembled from in the classifier check
Frags ==
    { <<"E","R","R","O","R">>, <<"e","r","r","o","r">>, <<"W","a","r","n">>,
      <<"I","N","F","O">>, <<"i","n","f","o">>, <<"D","e","b","u","g">>,
      <<"T","R","A","C","E">>, <<"E","R","R">>, <<"o","r">>,
      <<"I","N","F">>, <<"O">>, <<" ","x">> }

RECURSIVE Concat(_)
Concat(ss) == IF ss = <<>> THEN <<>> ELSE Head(ss) \o Concat(Tail(ss))

FragLines == { Concat(fs) : fs \in SeqsUpTo(Frags, MaxFrags) }

\* ------------------------------------------------------------------ state
VARIABLES
    args_file,      \* Args.file
    args_level,     \* Args.level : a level or NoLevel
    args_search,    \* Args.search : <<>> or <<term>>
    openable,       \* environment: File::open succeeds
    input,          \* environment: the lines of the file
    failAt,         \* environment: 0, or the index of the read that fails
    pc,             \* position of main
    src,            \* the file handle: "unopened", "open", "closed"
    opens,          \* number of successful File::open calls
    pos,            \* number of lines the reader has yielded
    level_counts,   \* HashMap<LogLevelFilter, usize>
    total_lines,
    matched_lines,
    search_term,    \* args.search lower-cased
    out,            \* standard output, one record per println!
    err,            \* error stream
    exit_code,      \* -1 while running
    cl_line,        \* classifier check: the argument
    cl_result       \* classifier check: the returned value, or "unset"

vars == << args_file, args_level, args_search, openable, input, failAt, pc,
           src, opens, pos, level_counts, total_lines, matched_lines,
           search_term, out, err, exit_code, cl_line, cl_result >>

envVars == << args_file, args_level, args_search, openable, input, failAt >>
clVars  == << cl_line, cl_result >>

EmptyMap == [l \in {} |-> 0]

Rec(kind, text, level, n) == [kind |-> kind, text |-> text, level |-> level, n |-> n]

MainInit ==
    /\ pc = "init"
    /\ src = "unopened"
    /\ opens = 0
    /\ pos = 0
    /\ level_counts = EmptyMap
    /\ total_lines = 0
    /\ matched_lines = 0
    /\ search_term = <<>>
    /\ out = <<>>
    /\ err = <<>>
    /\ exit_code = -1

Init ==
    /\ args_file \in Paths
    /\ args_level \in Levels \cup {NoLevel}
    /\ args_search \in {<<>>} \cup { <<t>> : t \in SearchTerms }
    /\ openable \in (IF args_file = "missing.log" THEN {FALSE} ELSE BOOLEAN)
    /\ input \in SeqsUpTo(Corpus, MaxLines)
    /\ failAt \in 0..(Len(input) + 1)
    /\ (~openable => input = <<>> /\ failAt = 0)
    /\ MainInit
    /\ cl_line = <<>>
    /\ cl_result = "unset"

\* the same run over fewer configurations and a smaller corpus
LiveCorpus ==
    { <<"e","r","r","o","r"," ","R","e","t","r","y">>,
      <<"I","n","f","o"," ","o","k">>,
      <<"h","e","l","l","o">> }

LiveInit ==
    /\ args_file \in Paths
    /\ args_level \in {NoLevel, "Error", "Info"}
    /\ args_search \in {<<>>, << <<"r","e","t","r","y">> >>}
    /\ openable \in (IF args_file = "missing.log" THEN {FALSE} ELSE BOOLEAN)
    /\ input \in SeqsUpTo(LiveCorpus, MaxLines)
    /\ failAt \in 0..(Len(input) + 1)
    /\ (~openable => input = <<>> /\ failAt = 0)
    /\ MainInit
    /\ cl_line = <<>>
    /\ cl_result = "unset"

\* ---------------------------------------------------------------- helpers
\* *level_counts.entry(l).or_insert(0) += 1, with the first count off by one
Tally_InsertOne(counts, l) ==
    IF l \in DOMAIN counts
    THEN [counts EXCEPT ![l] = @ + 1]
    ELSE [k \in DOMAIN counts \cup {l} |-> IF k = l THEN 2 ELSE counts[k]]

\* *level_counts.entry(l).or_insert(0) += 1
Tally(counts, l) ==
    IF l \in DOMAIN counts
    THEN [counts EXCEPT ![l] = @ + 1]
    ELSE [k \in DOMAIN counts \cup {l} |-> IF k = l THEN 1 ELSE counts[k]]

\* the level filter does not `continue`
PassesLevel(level) ==
    ~ (args_level # NoLevel /\ args_level # level)

\* the keyword search does not `continue`
PassesSearch(line) ==
    ~ (search_term # <<>> /\ ~ contains(to_lowercase(line), search_term[1]))

\* mutant: matching lines are printed whether or not a filter is set
EchoEnabled_Always == TRUE

\* args.level.is_some() || args.search.is_some(), guarding the echo
EchoEnabled == args_level # NoLevel \/ args_search # <<>>

\* args.level.is_some() || args.search.is_some(), guarding the matched count
ShowMatched == args_level # NoLevel \/ args_search # <<>>

\* format!("{:?}", level).to_uppercase()
LevelStr(l) ==
    CASE l = "Error" -> TokERROR
      [] l = "Warn"  -> TokWARN
      [] l = "Info"  -> TokINFO
      [] l = "Debug" -> TokDEBUG
      [] l = "Trace" -> TokTRACE

\* the orders in which a HashMap may yield its entries
IterOrders(counts) ==
    LET keys == DOMAIN counts
        n    == Cardinality(keys)
    IN  { [i \in 1..n |-> <<f[i], counts[f[i]]>>] :
            f \in { g \in [1..n -> keys] : \A i, j \in 1..n : g[i] = g[j] => i = j } }

\* mutant: ascending comparator a.1.cmp(&b.1)
RECURSIVE SortByCountDesc_Ascending(_)
SortByCountDesc_Ascending(v) ==
    IF v = <<>> THEN <<>>
    ELSE LET s == SortByCountDesc_Ascending(SubSeq(v, 1, Len(v) - 1))
             x == v[Len(v)]
             k == Cardinality({ i \in 1..Len(s) : s[i][2] <= x[2] })
         IN  SubSeq(s, 1, k) \o <<x>> \o SubSeq(s, k + 1, Len(s))

\* counts_vec.sort_by(|a, b| b.1.cmp(&a.1)): stable, descending by count
RECURSIVE SortByCountDesc(_)
SortByCountDesc(v) ==
    IF v = <<>> THEN <<>>
    ELSE LET s == SortByCountDesc(SubSeq(v, 1, Len(v) - 1))
             x == v[Len(v)]
             k == Cardinality({ i \in 1..Len(s) : s[i][2] >= x[2] })
         IN  SubSeq(s, 1, k) \o <<x>> \o SubSeq(s, k + 1, Len(s))

\* ---------------------------------------------------------------- actions
\* File::open succeeds; counters are initialised and the banner is printed
OpenOk ==
    /\ pc = "init"
    /\ openable
    /\ src' = "open"
    /\ opens' = opens + 1
    /\ level_counts' = EmptyMap
    /\ total_lines' = 0
    /\ matched_lines' = 0
    /\ search_term' = IF args_search = <<>> THEN <<>>
                      ELSE << to_lowercase(args_search[1]) >>
    /\ out' = Append(out, Rec("banner", <<>>, NoLevel, 0))
    /\ pc' = "scanning"
    /\ UNCHANGED << envVars, pos, err, exit_code, clVars >>

\* mutant: the diagnostic carries no path
OpenFail_NoPath ==
    /\ pc = "init"
    /\ ~openable
    /\ err' = Append(err, [msg |-> "Failed to open log file at", path |-> ""])
    /\ exit_code' = 1
    /\ pc' = "error"
    /\ UNCHANGED << envVars, src, opens, pos, level_counts, total_lines,
                    matched_lines, search_term, out, clVars >>

\* File::open fails; `?` returns the error with its context from main
OpenFail ==
    /\ pc = "init"
    /\ ~openable
    /\ err' = Append(err, [msg |-> "Failed to open log file at", path |-> args_file])
    /\ exit_code' = 1
    /\ pc' = "error"
    /\ UNCHANGED << envVars, src, opens, pos, level_counts, total_lines,
                    matched_lines, search_term, out, clVars >>

\* mutant: total_lines is incremented next to matched_lines, after the filters
ProcessLine_CountAfterFilters ==
    /\ pc = "scanning"
    /\ pos < Len(input)
    /\ failAt # pos + 1
    /\ LET line  == input[pos + 1]
           level == parse_log_level(line)
       IN  /\ pos' = pos + 1
           /\ level_counts' = IF level # NoLevel THEN Tally(level_counts, level)
                              ELSE level_counts
           /\ IF PassesLevel(level) /\ PassesSearch(line)
              THEN /\ total_lines' = total_lines + 1
                   /\ matched_lines' = matched_lines + 1
                   /\ out' = IF EchoEnabled
                             THEN Append(out, Rec("echo", line, level, 0))
                             ELSE out
              ELSE UNCHANGED << total_lines, matched_lines, out >>
    /\ UNCHANGED << envVars, pc, src, opens, search_term, err, exit_code, clVars >>

\* one iteration of the loop over reader.lines() whose read succeeds
ProcessLine ==
    /\ pc = "scanning"
    /\ pos < Len(input)
    /\ failAt # pos + 1
    /\ LET line  == input[pos + 1]
           level == parse_log_level(line)
       IN  /\ pos' = pos + 1
           /\ total_lines' = total_lines + 1
           /\ level_counts' = IF level # NoLevel THEN Tally(level_counts, level)
                              ELSE level_counts
           /\ IF PassesLevel(level) /\ PassesSearch(line)
              THEN /\ matched_lines' = matched_lines + 1
                   /\ out' = IF EchoEnabled
                             THEN Append(out, Rec("echo", line, level, 0))
                             ELSE out
              ELSE UNCHANGED << matched_lines, out >>
    /\ UNCHANGED << envVars, pc, src, opens, search_term, err, exit_code, clVars >>

\* mutant: a failed read ends the loop and the summary is still printed
ReadFail_Summarize ==
    /\ pc = "scanning"
    /\ failAt = pos + 1
    /\ err' = Append(err, [msg |-> "Failed to read a line from the file", path |-> ""])
    /\ src' = "closed"
    /\ pc' = "summarizing"
    /\ UNCHANGED << envVars, opens, pos, level_counts, total_lines, matched_lines,
                    search_term, out, exit_code, clVars >>

\* mutant: the error path leaves the file open
ReadFail_Leak ==
    /\ pc = "scanning"
    /\ failAt = pos + 1
    /\ err' = Append(err, [msg |-> "Failed to read a line from the file", path |-> ""])
    /\ exit_code' = 1
    /\ pc' = "error"
    /\ UNCHANGED << envVars, src, opens, pos, level_counts, total_lines,
                    matched_lines, search_term, out, clVars >>

\* the reader yields Err; `?` returns from main, dropping the reader
ReadFail ==
    /\ pc = "scanning"
    /\ failAt = pos + 1
    /\ err' = Append(err, [msg |-> "Failed to read a line from the file", path |-> ""])
    /\ src' = "closed"
    /\ exit_code' = 1
    /\ pc' = "error"
    /\ UNCHANGED << envVars, opens, pos, level_counts, total_lines, matched_lines,
                    search_term, out, clVars >>

\* mutant: the loop may be left before the reader is exhausted
EndOfInput_Early ==
    /\ pc = "scanning"
    /\ pos <= Len(input)
    /\ failAt # pos + 1
    /\ src' = "closed"
    /\ pc' = "summarizing"
    /\ UNCHANGED << envVars, opens, pos, level_counts, total_lines, matched_lines,
                    search_term, out, err, exit_code, clVars >>

\* the reader yields None: the loop ends and the reader is dropped
EndOfInput ==
    /\ pc = "scanning"
    /\ pos = Len(input)
    /\ failAt # pos + 1
    /\ src' = "closed"
    /\ pc' = "summarizing"
    /\ UNCHANGED << envVars, opens, pos, level_counts, total_lines, matched_lines,
                    search_term, out, err, exit_code, clVars >>

\* the summary block, then Ok(())
Summarize ==
    /\ pc = "summarizing"
    /\ \E order \in IterOrders(level_counts) :
         LET counts_vec == SortByCountDesc(order)
             head == << Rec("summary", <<>>, NoLevel, 0),
                        Rec("total", <<>>, NoLevel, total_lines) >>
             mid  == IF ShowMatched
                     THEN << Rec("matched", <<>>, NoLevel, matched_lines) >>
                     ELSE <<>>
             tbl  == IF counts_vec = <<>>
                     THEN << Rec("notice", <<>>, NoLevel, 0) >>
                     ELSE [i \in 1..Len(counts_vec) |->
                             Rec("row", LevelStr(counts_vec[i][1]),
                                 counts_vec[i][1], counts_vec[i][2])]
         IN  out' = out \o head \o mid
                        \o << Rec("counts_header", <<>>, NoLevel, 0) >> \o tbl
    /\ exit_code' = 0
    /\ pc' = "done"
    /\ UNCHANGED << envVars, src, opens, pos, level_counts, total_lines,
                    matched_lines, search_term, err, clVars >>

Next ==
    \/ OpenOk
    \/ OpenFail
    \/ ProcessLine
    \/ ReadFail
    \/ EndOfInput
    \/ Summarize

Spec == Init /\ [][Next]_vars

\* main is sequential code: whichever step is enabled is eventually taken
FairSpec == LiveInit /\ [][Next]_vars /\ WF_vars(Next)

\* --------------------------------------------- the classifier on its own
ClassifyInit ==
    /\ args_file = "app.log"
    /\ args_level = NoLevel
    /\ args_search = <<>>
    /\ openable = TRUE
    /\ input = <<>>
    /\ failAt = 0
    /\ MainInit
    /\ cl_line \in FragLines
    /\ cl_result = "unset"

\* let level = parse_log_level(&line)
Classify ==
    /\ cl_result = "unset"
    /\ cl_result' = parse_log_level(cl_line)
    /\ UNCHANGED << envVars, pc, src, opens, pos, level_counts, total_lines,
                    matched_lines, search_term, out, err, exit_code, cl_line >>

ClassifyNext == Classify

ClassifySpec == ClassifyInit /\ [][ClassifyNext]_vars

\* ------------------------------------------------- vocabulary of the claims
\* two characters are equal up to letter case
CaseEq(a, b) ==
    \/ a = b
    \/ \E i \in 1..Len(Lowers) : {a, b} = {Lowers[i], Uppers[i]}
    \/ {a, b} \subseteq Sigmas

\* tok occurs in line as a case-insensitive substring
OccursCI(tok, line) ==
    \E i \in 1..(Len(line) - Len(tok) + 1) :
        \A j \in 1..Len(tok) : CaseEq(line[i + j - 1], tok[j])

\* the first token, in the order ERROR, WARN, INFO, DEBUG, TRACE, that occurs
FirstLevel(line) ==
    CASE OccursCI(TokERROR, line) -> "Error"
      [] ~OccursCI(TokERROR, line) /\ OccursCI(TokWARN, line) -> "Warn"
      [] \A t \in {TokERROR, TokWARN} : ~OccursCI(t, line)
           /\ OccursCI(TokINFO, line) -> "Info"
      [] \A t \in {TokERROR, TokWARN, TokINFO} : ~OccursCI(t, line)
           /\ OccursCI(TokDEBUG, line) -> "Debug"
      [] \A t \in {TokERROR, TokWARN, TokINFO, TokDEBUG} : ~OccursCI(t, line)
           /\ OccursCI(TokTRACE, line) -> "Trace"
      [] OTHER -> NoLevel

LinesRead == SubSeq(input, 1, pos)

\* number of lines read so far that classify to l
ClassifiedAs(l) == Cardinality({ i \in 1..pos : parse_log_level(input[i]) = l })

CountOf(l) == IF l \in DOMAIN level_counts THEN level_counts[l] ELSE 0

TallySum ==
    CountOf("Error") + CountOf("Warn") + CountOf("Info")
        + CountOf("Debug") + CountOf("Trace")

IsKind(k, r) == r.kind = k
OutOfKind(k) == LET T(r) == IsKind(k, r) IN SelectSeq(out, T)
Echoed == LET e == OutOfKind("echo") IN [i \in 1..Len(e) |-> e[i].text]
Rows == OutOfKind("row")

FilterConfigured == args_level # NoLevel \/ args_search # <<>>

\* the line passes every configured filter
PassesFilters(line) ==
    /\ args_level # NoLevel =>
         parse_log_level(line) # NoLevel /\ parse_log_level(line) = args_level
    /\ args_search # <<>> => OccursCI(args_search[1], line)

SummaryKinds == {"summary", "total", "matched", "counts_header", "row", "notice"}
SummaryPrinted == \E i \in 1..Len(out) : out[i].kind \in SummaryKinds

\* ----------------------------------------------------------------- claims
\* C1: parse_log_level returns the level of the first of ERROR, WARN, INFO,
\* DEBUG, TRACE that occurs in the line as a case-insensitive substring, and
\* none exactly when no token occurs; it always returns a value.
C1_FirstTokenWins ==
    cl_result # "unset" =>
        /\ cl_result \in Levels \cup {NoLevel}
        /\ cl_result = FirstLevel(cl_line)
        /\ (cl_result = NoLevel <=>
              \A t \in {TokERROR, TokWARN, TokINFO, TokDEBUG, TokTRACE} :
                  ~OccursCI(t, cl_line))

C1_Witness ==
    /\ cl_result = "Error"
    /\ OccursCI(TokWARN, cl_line)
    /\ \E i \in 1..Len(cl_line) : IsLower(cl_line[i])

\* C2: total_lines is the number of lines read so far, matched_lines never
\* exceeds it, neither counter ever decreases, and the total printed in the
\* summary is the number of lines of the input.
C2_Counters ==
    /\ [](/\ total_lines = pos
          /\ matched_lines <= total_lines
          /\ \A i \in 1..Len(out) :
               out[i].kind = "total" => out[i].n = Len(input))
    /\ [][total_lines' >= total_lines /\ matched_lines' >= matched_lines]_vars

C2_Witness ==
    /\ pc = "done"
    /\ total_lines >= 2
    /\ 0 < matched_lines
    /\ matched_lines < total_lines

\* C3: after any prefix of the scan each tally entry is the number of lines
\* read that classify to that level, so the tally sums to the number of
\* classified lines and is at most total_lines, whatever filter is set.
C3_TallyCountsClassified ==
    /\ \A l \in Levels : CountOf(l) = ClassifiedAs(l)
    /\ TallySum = Cardinality({ i \in 1..pos : parse_log_level(input[i]) # NoLevel })
    /\ TallySum <= total_lines

C3_Witness ==
    /\ args_level # NoLevel
    /\ args_search # <<>>
    /\ matched_lines = 0
    /\ TallySum >= 2
    /\ TallySum < total_lines

\* C4: with a filter configured, the echoed lines are exactly the lines read
\* that pass every configured filter, in input order, and matched_lines is
\* their number.
C4_EchoIsFilteredInput ==
    FilterConfigured =>
        /\ Echoed = LET P(line) == PassesFilters(line) IN SelectSeq(LinesRead, P)
        /\ matched_lines = Len(Echoed)

\* C5: with no level filter and no search term, matched_lines equals
\* total_lines after every line, nothing is echoed, and the summary has no
\* matched-lines count.
C5_NoFilterNoEcho ==
    ~FilterConfigured =>
        /\ matched_lines = total_lines
        /\ OutOfKind("echo") = <<>>
        /\ OutOfKind("matched") = <<>>

C5_Witness ==
    /\ ~FilterConfigured
    /\ pc = "done"
    /\ total_lines >= 2

\* C6: when the file cannot be opened the run goes from the initial state
\* straight to the terminal error state: nothing is read, tallied or printed,
\* the exit code is non-zero and the diagnostic names the path.
C6_OpenFailure ==
    ~openable =>
        /\ pc \in {"init", "error"}
        /\ pos = 0 /\ total_lines = 0 /\ matched_lines = 0
        /\ level_counts = EmptyMap
        /\ out = <<>>
        /\ src = "unopened"
        /\ pc = "error" =>
             /\ exit_code \notin {-1, 0}
             /\ Len(err) = 1
             /\ err[1].path = args_file
             /\ ~ENABLED Next

C6_Witness ==
    /\ ~openable
    /\ pc = "error"
    /\ args_file = "missing.log"

\* C7: when a read fails the scan stops there: the failing line is not
\* counted, no later line is processed, nothing of the summary is ever
\* printed and the exit code is non-zero.
C7_ReadFailure ==
    failAt # 0 =>
        /\ pos < failAt
        /\ total_lines < failAt
        /\ pc \notin {"summarizing", "done"}
        /\ ~SummaryPrinted
        /\ exit_code # 0
        /\ pc = "error" =>
             /\ total_lines = failAt - 1
             /\ exit_code # -1
             /\ ~ENABLED Next

C7_Witness ==
    /\ pc = "error"
    /\ openable
    /\ failAt >= 2
    /\ failAt <= Len(input)
    /\ level_counts # EmptyMap

\* C8: the table of the summary has one row for each tallied level, carrying
\* its final count, in non-increasing order of count; when nothing was
\* tallied the notice is printed and no row.
C8_SummaryTable ==
    pc = "done" =>
        /\ \A l \in Levels :
             Cardinality({ i \in 1..Len(Rows) : Rows[i].level = l })
                = IF l \in DOMAIN level_counts THEN 1 ELSE 0
        /\ \A i \in 1..Len(Rows) :
             /\ Rows[i].level \in DOMAIN level_counts
             /\ Rows[i].n = level_counts[Rows[i].level]
             /\ Rows[i].n >= 1
        /\ \A i, j \in 1..Len(Rows) : i < j => Rows[i].n >= Rows[j].n
        /\ Len(OutOfKind("notice")) = IF level_counts = EmptyMap THEN 1 ELSE 0
        /\ level_counts = EmptyMap => Rows = <<>>

C8_Witness ==
    /\ pc = "done"
    /\ Len(Rows) >= 2
    /\ Rows[1].n > Rows[Len(Rows)].n

\* C9: the run only moves init -> scanning -> summarizing -> done (or to the
\* error state); the summary appears only once the input is exhausted; after
\* the scan no line is read, tallied or echoed; and a run whose file opens and
\* whose reads all succeed ends with the summary printed and exit code 0.
C9_Lifecycle ==
    /\ [][pc' # pc =>
            <<pc, pc'>> \in { <<"init", "scanning">>, <<"scanning", "summarizing">>,
                              <<"summarizing", "done">>,
                              <<"init", "error">>, <<"scanning", "error">> }]_vars
    /\ [](SummaryPrinted => pc = "done" /\ pos = Len(input))
    /\ [][(pc \in {"summarizing", "done"}) =>
            (pos' = pos /\ total_lines' = total_lines
               /\ level_counts' = level_counts /\ Echoed' = Echoed)]_vars
    /\ ((openable /\ failAt = 0) ~> (pc = "done" /\ exit_code = 0 /\ SummaryPrinted))

C9_Witness ==
    /\ pc = "done"
    /\ exit_code = 0
    /\ pos >= 2
    /\ SummaryPrinted

\* C10: the file is opened at most once and before any line is read, a line
\* is read only while it is open, and once the process has an exit code the
\* file is no longer open.
C10_SourceScoped ==
    /\ [](/\ opens <= 1
          /\ (pos > 0 => opens = 1)
          /\ (exit_code # -1 => src # "open")
          /\ (exit_code # -1 /\ opens = 1 => src = "closed"))
    /\ [][pos' # pos => src = "open" /\ src' = "open"]_vars

C10_Witness ==
    /\ pc = "error"
    /\ src = "closed"
    /\ pos >= 1

====
